---- MODULE Spec2Model ----
(***************************************************************************)
(* State-machine model of the contract-interaction and price-discovery     *)
(* core of ColossusWeb3/backend:                                           *)
(*   - PriceOracleService          src/src/services/tokens/priceOracles.ts *)
(*   - ContractInteractionService  src/src/services/contracts/interact.ts  *)
(*                                                                         *)
(* Every await of the source is a suspension point: the code between two  *)
(* awaits is one atomic action, and other operations may run in between.  *)
(* Values read from the ledger, the explorer and the clock are inputs      *)
(* drawn from small sets.                                                  *)
(***************************************************************************)
EXTENDS Integers, Sequences, FiniteSets, TLC

(***************************************************************************)
(* Bounds of the model.                                                    *)
(***************************************************************************)
\* clock advances explored
MaxTicks == 2
\* getTokenPrice invocations explored
MaxCalls == 2
\* base units per ether in the model's amounts (10^18 in ethers.formatEther)
WeiPerEther == 1000

\* concurrent getTokenPrice callers
Callers == 1..2

(***************************************************************************)
(* JavaScript values.                                                      *)
(***************************************************************************)
\* a JS number is an exact rational n/d, Infinity or NaN; Null is `null`
Fin(n, d) == [k |-> "fin", n |-> n, d |-> d]
Infinity == [k |-> "inf", n |-> 0, d |-> 0]
NaN == [k |-> "nan", n |-> 0, d |-> 0]
Null == [k |-> "null", n |-> 0, d |-> 0]

RECURSIVE Gcd(_, _)
Gcd(a, b) == IF b = 0 THEN a ELSE Gcd(b, a % b)

\* the rational n/d in lowest terms (n >= 0, d > 0)
Rat(n, d) == IF n = 0 THEN Fin(0, 1) ELSE Fin(n \div Gcd(n, d), d \div Gcd(n, d))

\* x * y on JS numbers (non-negative operands)
NumMul(x, y) ==
  IF x.k = "nan" \/ y.k = "nan" THEN NaN
  ELSE IF x.k = "inf" \/ y.k = "inf"
       THEN (IF (x.k = "fin" /\ x.n = 0) \/ (y.k = "fin" /\ y.n = 0) THEN NaN ELSE Infinity)
  ELSE Rat(x.n * y.n, x.d * y.d)

\* x / y on JS numbers (non-negative operands): a division by zero is
\* Infinity, 0/0 is NaN
NumDiv(x, y) ==
  IF x.k = "nan" \/ y.k = "nan" THEN NaN
  ELSE IF x.k = "inf" THEN (IF y.k = "inf" THEN NaN ELSE Infinity)
  ELSE IF y.k = "inf" THEN Fin(0, 1)
  ELSE IF y.n = 0 THEN (IF x.n = 0 THEN NaN ELSE Infinity)
  ELSE Rat(x.n * y.d, x.d * y.n)

RECURSIVE Pow10(_)
Pow10(e) == IF e = 0 THEN 1 ELSE 10 * Pow10(e - 1)

\* Number(ethers.formatEther(v)): the amount v in whole ether
formatEther(v) == Rat(v, WeiPerEther)

\* Number(ethers.formatUnits(v, decimals))
formatUnits(v, decimals) == Rat(v, Pow10(decimals))

\* String.prototype.toLowerCase on a string given as a sequence of characters
LowerChar(ch) ==
  CASE ch = "A" -> "a"
    [] ch = "B" -> "b"
    [] ch = "C" -> "c"
    [] ch = "E" -> "e"
    [] OTHER -> ch

toLowerCase(s) == [i \in DOMAIN s |-> LowerChar(s[i])]

\* String.prototype.startsWith / endsWith
startsWith(s, p) == Len(p) <= Len(s) /\ SubSeq(s, 1, Len(p)) = p

endsWith(s, p) == Len(p) <= Len(s) /\ SubSeq(s, Len(s) - Len(p) + 1, Len(s)) = p

(***************************************************************************)
(* PriceOracleService: configuration and inputs.                           *)
(***************************************************************************)
\* cache expiration time in milliseconds
CACHE_EXPIRATION == 5 * 60 * 1000

\* token addresses callers pass: one token in two letter cases, and another
TokenAddresses == { <<"0x", "A">>, <<"0x", "a">>, <<"0x", "b">> }

\* network names callers pass; "polygon" has no factory and no WETH address
Networks == { <<"mainnet">>, <<"polygon">> }

\* factoryAddresses / wethAddresses: the networks that have an entry
factoryAddresses == { <<"mainnet">>, <<"goerli">> }

wethAddresses == { <<"mainnet">>, <<"goerli">> }

\* the wrapped-ether address on a network, as the table spells it (mixed case)
WethOf(network) == IF network = <<"mainnet">> THEN <<"0x", "C">> ELSE <<"0x", "E">>

\* symbols that have a price feed
PRICE_FEEDS == { "WETH", "WBTC", "DAI", "USDC", "USDT" }

\* what token0() of a pool may answer for a token: the reference asset or
\* the token
Token0s(tokenAddress, network) == { WethOf(network), tokenAddress }

\* what token1() may answer then: the other asset of the pool, which is the
\* token, the reference asset (spelled in lower case) or a third asset
Token1s(token0, tokenAddress, network) ==
  IF token0 = WethOf(network)
  THEN { tokenAddress }
  ELSE { toLowerCase(WethOf(network)), <<"0x", "d">> }

\* what getReserves() may answer: <<reserve0, reserve1>> in base units
ReservePairs ==
  { <<10 * WeiPerEther, 20000 * WeiPerEther>>,
    <<10 * WeiPerEther, 0>> }

\* what symbol() of the reference asset may answer
Symbols == { "WETH", "XYZ" }

\* what latestRoundData() / decimals() of the feed may answer
Answers == { 300000 }

FeedDecimals == { 2 }

VARIABLES
  now,         \* Date.now(), in milliseconds
  ticks,       \* clock advances so far
  priceCache,  \* cacheKey -> [price, timestamp]
  gtp,         \* per caller: the getTokenPrice invocation in flight, its locals
  obs,         \* per caller: what an observer of the invocation records
  last,        \* the operation of the oracle that returned last
  lastOk,      \* <<lowercased address, network>> -> last successful derivation
  started,     \* getTokenPrice invocations so far
  quote,       \* a pool and feed reading, and the price computed from it
  config,      \* ContractInteractionService.config: which fields are present
  contract,    \* this.contract: 0 (undefined) or the number of the instance
  wallet,      \* this.wallet is set
  initPc,      \* initialize(): "idle", or "fetch" while the explorer is asked
  inits,       \* initialize() invocations so far
  explorerRequests, \* requests sent to the block explorer so far
  explorerNetwork,  \* the network of the explorer that was asked last
  eventListeners,   \* this.eventListeners: listenerId -> listener
  attached,    \* the listeners attached at the connection layer:
               \* <<contract instance, event name, listener>>
  issued,      \* per listener, in order of creation: the listenerId returned
  revoked,     \* listeners whose listenerId was unsubscribed
  lateCalls,   \* listeners invoked after their listenerId was unsubscribed
  destroyed,   \* provider.destroy() was called
  ret,         \* the operation of the service that returned last
  batches,     \* per batchTransactions invocation: its position and locals
  mined,       \* the transactions of the wallet the network has confirmed
  stx          \* the sendTransaction invocation of a caller: its position

oracleVars == <<priceCache, gtp, obs, last, lastOk, started>>

bindingVars == <<config, contract, wallet, initPc, inits, explorerRequests,
                 explorerNetwork>>

eventVars == <<eventListeners, attached, issued, revoked, lateCalls, destroyed>>

txVars == <<batches, mined>>

sendVars == <<stx>>

serviceVars == <<bindingVars, eventVars, ret, txVars, sendVars>>

vars == <<now, ticks, priceCache, gtp, obs, last, lastOk, started, quote,
          config, contract, wallet, initPc, inits, explorerRequests, explorerNetwork,
          eventListeners, attached, issued, revoked, lateCalls, destroyed, ret,
          batches, mined, stx>>

(***************************************************************************)
(* PriceOracleService.                                                     *)
(***************************************************************************)
\* CacheKey without the toLowerCase()
CacheKeyCaseSensitive(tokenAddress, network) == tokenAddress \o <<"_">> \o network

\* cacheKey = `${tokenAddress.toLowerCase()}_${network}`
CacheKey(tokenAddress, network) == toLowerCase(tokenAddress) \o <<"_">> \o network

\* CacheValid with <= in place of <
CacheValidInclusive(cacheKey) ==
  /\ cacheKey \in DOMAIN priceCache
  /\ now - priceCache[cacheKey].timestamp <= CACHE_EXPIRATION

\* the cache-hit test of getTokenPrice
CacheValid(cacheKey) ==
  /\ cacheKey \in DOMAIN priceCache
  /\ now - priceCache[cacheKey].timestamp < CACHE_EXPIRATION

\* getWethAddress: defined only on the configured networks (throws otherwise)
getWethAddress(network) == WethOf(network)

\* TokenPrice with the two reserve slots taken the wrong way round
TokenPriceSwapped(token0, reserve0, reserve1, wethPrice, network) ==
  IF toLowerCase(token0) = toLowerCase(getWethAddress(network))
  THEN NumDiv(NumMul(formatEther(reserve1), wethPrice), formatEther(reserve0))
  ELSE NumDiv(NumMul(formatEther(reserve0), wethPrice), formatEther(reserve1))

\* the reserve-ratio price computed at the end of getPriceFromUniswapV2
TokenPrice(token0, reserve0, reserve1, wethPrice, network) ==
  IF toLowerCase(token0) = toLowerCase(getWethAddress(network))
  THEN NumDiv(NumMul(formatEther(reserve0), wethPrice), formatEther(reserve1))
  ELSE NumDiv(NumMul(formatEther(reserve1), wethPrice), formatEther(reserve0))

\* a caller's slot with no invocation in flight, and the locals of a fresh one
IdleCall ==
  [pc |-> "idle", tokenAddress |-> <<>>, network |-> <<>>,
   token0 |-> <<>>, token1 |-> <<>>, reserve0 |-> 0, reserve1 |-> 0,
   wethPrice |-> Null, price |-> Null]

IdleObs ==
  [reads |-> 0, expect |-> Null, otherCase |-> FALSE, entry |-> "none", stale |-> FALSE]

\* how old the cache entry of a key is against the expiration time
AgeClass(cacheKey) ==
  IF cacheKey \notin DOMAIN priceCache THEN "none"
  ELSE IF now - priceCache[cacheKey].timestamp < CACHE_EXPIRATION THEN "fresh"
  ELSE IF now - priceCache[cacheKey].timestamp = CACHE_EXPIRATION THEN "boundary"
  ELSE "older"

\* what an observer notes when an invocation starts: the price of the last
\* successful derivation for the key if it is younger than the expiration
\* (and whether that one spelled the address differently), how old the
\* entry is that the cache holds for the key, and whether a valid entry
\* was written by a derivation that a clearCache of the key had overtaken
StartObs(tokenAddress, network) ==
  LET k == <<toLowerCase(tokenAddress), network>>
      ck == CacheKey(tokenAddress, network)
      fresh == k \in DOMAIN lastOk /\ now - lastOk[k].at < CACHE_EXPIRATION
  IN [reads |-> 0,
      expect |-> IF fresh THEN lastOk[k].price ELSE Null,
      otherCase |-> fresh /\ lastOk[k].by # tokenAddress,
      entry |-> AgeClass(ck),
      stale |-> CacheValid(ck) /\ k \in DOMAIN lastOk /\ lastOk[k].stale]

\* the record of a return: the operation, its arguments and locals, what the
\* observer noted, the outcome, the value returned, the entries removed,
\* and for a failure what went wrong inside and what the caller is thrown
NoReturn ==
  [op |-> "none", call |-> IdleCall, obs |-> IdleObs, result |-> "none",
   value |-> Null, removed |-> 0, cause |-> "none", raised |-> "none"]

\* the invocation in slot c returns: the slot is free again
Return(c, call, o, result, value) ==
  /\ gtp' = [gtp EXCEPT ![c] = IdleCall]
  /\ obs' = [obs EXCEPT ![c] = IdleObs]
  /\ last' = [op |-> "getTokenPrice", call |-> [call EXCEPT !.pc = "done"], obs |-> o,
              result |-> result, value |-> value, removed |-> 0,
              cause |-> "none", raised |-> "none"]

\* how getPriceFromUniswapV2 ends for a cause of failure: it returns null,
\* or an exception leaves it (getWethAddress throws, a read rejects)
Inner(cause) ==
  IF cause \in {"NoWethAddress", "ReadThrows"} THEN "throws" ELSE "null"

\* PriceFailure without the try/catch around the derivation
PriceFailureUncaught(inner) ==
  IF inner = "throws" THEN "UnderlyingError" ELSE "PriceUnavailableError"

\* what getTokenPrice raises when the derivation gave no price: the catch
\* logs, then `throw new Error("Unable to get price ...")` in both cases
PriceFailure(inner) == "PriceUnavailableError"

\* the invocation of tokenAddress on network in slot c ends with a throw
Raise(c, tokenAddress, network, o, cause) ==
  /\ gtp' = [gtp EXCEPT ![c] = IdleCall]
  /\ obs' = [obs EXCEPT ![c] = IdleObs]
  /\ last' = [NoReturn EXCEPT !.op = "getTokenPrice", !.result = "error",
                              !.call = [IdleCall EXCEPT !.pc = "done",
                                                        !.tokenAddress = tokenAddress,
                                                        !.network = network],
                              !.obs = o, !.cause = cause,
                              !.raised = PriceFailure(Inner(cause))]

\* Fail that stores the null price before it throws
FailStoresNull(c, nreads, cause) ==
  /\ Raise(c, gtp[c].tokenAddress, gtp[c].network,
           [IdleObs EXCEPT !.reads = obs[c].reads + nreads, !.expect = obs[c].expect],
           cause)
  /\ priceCache' = [x \in DOMAIN priceCache
                         \cup {CacheKey(gtp[c].tokenAddress, gtp[c].network)} |->
                      IF x = CacheKey(gtp[c].tokenAddress, gtp[c].network)
                      THEN [price |-> Null, timestamp |-> now]
                      ELSE priceCache[x]]
  /\ UNCHANGED lastOk

\* the invocation ends without a price after nreads more reads: nothing is
\* written on the way to the throw
Fail(c, nreads, cause) ==
  /\ Raise(c, gtp[c].tokenAddress, gtp[c].network,
           [IdleObs EXCEPT !.reads = obs[c].reads + nreads, !.expect = obs[c].expect],
           cause)
  /\ UNCHANGED <<priceCache, lastOk>>

\* the invocation goes on to its next await after nreads more reads
Goto(c, call, nreads) ==
  /\ gtp' = [gtp EXCEPT ![c] = call]
  /\ obs' = [obs EXCEPT ![c].reads = @ + nreads]
  /\ UNCHANGED <<priceCache, lastOk, last>>

\* the slot a new invocation takes: the first one free
FreeSlot == IF gtp[1].pc = "idle" THEN 1 ELSE 2

\* getTokenPrice up to its first await: the cache check, and on a miss the
\* factory lookup of findUniswapPairAddress
GetTokenPrice(c, tokenAddress, network) ==
  /\ c = FreeSlot
  /\ gtp[c].pc = "idle"
  /\ started < MaxCalls
  /\ started' = started + 1
  /\ UNCHANGED <<priceCache, lastOk, now, ticks>>
  /\ LET cacheKey == CacheKey(tokenAddress, network)
         call == [IdleCall EXCEPT !.tokenAddress = tokenAddress, !.network = network]
         o == StartObs(tokenAddress, network)
     IN IF CacheValid(cacheKey)
        THEN Return(c, call, o, "ok", priceCache[cacheKey].price)
        ELSE IF network \notin factoryAddresses
        THEN Raise(c, tokenAddress, network, [IdleObs EXCEPT !.expect = o.expect],
                   "NoFactory")
        ELSE IF network \notin wethAddresses
        THEN Raise(c, tokenAddress, network, [IdleObs EXCEPT !.expect = o.expect],
                   "NoWethAddress")
        ELSE /\ gtp' = [gtp EXCEPT ![c] = [call EXCEPT !.pc = "getPair"]]
             /\ obs' = [obs EXCEPT ![c] = o]
             /\ UNCHANGED last

\* findUniswapPairAddress: await factory.getPair(tokenAddress, wethAddress)
FactoryGetPair(c) ==
  /\ gtp[c].pc = "getPair"
  /\ UNCHANGED <<started, now, ticks>>
  /\ \/ \* a pair address
        Goto(c, [gtp[c] EXCEPT !.pc = "pair"], 1)
     \/ \* the zero address: no pair
        Fail(c, 1, "NoPair")
     \/ \* the read throws
        Fail(c, 1, "ReadThrows")

\* getPriceFromUniswapV2: await pairContract.token0(), token1() and
\* getReserves() (three reads in a row that touch no state of the service),
\* then the test that the pool holds the reference asset
PairReads(c) ==
  /\ gtp[c].pc = "pair"
  /\ UNCHANGED <<started, now, ticks>>
  /\ \/ \E t0 \in Token0s(gtp[c].tokenAddress, gtp[c].network), r \in ReservePairs :
          \E t1 \in Token1s(t0, gtp[c].tokenAddress, gtp[c].network) :
            LET weth == toLowerCase(getWethAddress(gtp[c].network))
            IN IF toLowerCase(t0) # weth /\ toLowerCase(t1) # weth
               THEN Fail(c, 3, "NoReferenceAsset")
               ELSE Goto(c, [gtp[c] EXCEPT !.pc = "feed", !.token0 = t0, !.token1 = t1,
                                           !.reserve0 = r[1], !.reserve1 = r[2]], 3)
     \/ \* token0(), token1() or getReserves() throws
        \E n \in 1..3 : Fail(c, n, "ReadThrows")

\* getPriceFromChainlink: await tokenContract.symbol(), the feed lookup,
\* await priceFeed.latestRoundData() and decimals() (reads in a row that
\* touch no state of the service); the price of the reference asset and,
\* back in getPriceFromUniswapV2, the token price
FeedReads(c) ==
  /\ gtp[c].pc = "feed"
  /\ UNCHANGED <<started, now, ticks>>
  /\ \/ \E symbol \in Symbols, answer \in Answers, decimals \in FeedDecimals :
          IF symbol \notin PRICE_FEEDS
          THEN Fail(c, 1, "NoFeed")
          ELSE LET wethPrice == formatUnits(answer, decimals)
               IN Goto(c, [gtp[c] EXCEPT !.pc = "store", !.wethPrice = wethPrice,
                             !.price = TokenPrice(gtp[c].token0, gtp[c].reserve0,
                                                  gtp[c].reserve1, wethPrice,
                                                  gtp[c].network)], 3)
     \/ \* symbol(), latestRoundData() or decimals() throws
        \E n \in 1..3 : Fail(c, n, "ReadThrows")

\* StorePrice with a first-writer-wins guard: an invocation that finds a
\* valid entry on its return leaves it in place
StorePriceIfAbsent(c) ==
  /\ gtp[c].pc = "store"
  /\ UNCHANGED <<started, now, ticks>>
  /\ LET cacheKey == CacheKey(gtp[c].tokenAddress, gtp[c].network)
         entry == [price |-> gtp[c].price, timestamp |-> now]
     IN /\ priceCache' = IF CacheValid(cacheKey) THEN priceCache
                         ELSE [x \in DOMAIN priceCache \cup {cacheKey} |->
                                 IF x = cacheKey THEN entry ELSE priceCache[x]]
        /\ UNCHANGED lastOk
        /\ Return(c, gtp[c], obs[c], "ok", gtp[c].price)

\* getTokenPrice after `price = await this.getPriceFromUniswapV2(...)`:
\* a non-null price is a non-empty string, so it is cached and returned
StorePrice(c) ==
  /\ gtp[c].pc = "store"
  /\ UNCHANGED <<started, now, ticks>>
  /\ LET cacheKey == CacheKey(gtp[c].tokenAddress, gtp[c].network)
         entry == [price |-> gtp[c].price, timestamp |-> now]
         k == <<toLowerCase(gtp[c].tokenAddress), gtp[c].network>>
     IN /\ priceCache' = [x \in DOMAIN priceCache \cup {cacheKey} |->
                            IF x = cacheKey THEN entry ELSE priceCache[x]]
        /\ lastOk' = [x \in DOMAIN lastOk \cup {k} |->
                        IF x = k
                        THEN [price |-> gtp[c].price, at |-> now, by |-> gtp[c].tokenAddress,
                              stale |-> obs[c].stale]
                        ELSE lastOk[x]]
        /\ Return(c, gtp[c], obs[c], "ok", gtp[c].price)

\* ClearedKeys that takes the prefix branch whenever an address is given
ClearedKeysByPrefix(tokenAddress, network) ==
  IF tokenAddress # <<>>
  THEN {k \in DOMAIN priceCache : startsWith(k, toLowerCase(tokenAddress) \o <<"_">>)}
  ELSE IF network # <<>>
  THEN {k \in DOMAIN priceCache : endsWith(k, <<"_">> \o network)}
  ELSE DOMAIN priceCache

\* the keys clearCache(tokenAddress?, network?) deletes; <<>> is an absent
\* argument
ClearedKeys(tokenAddress, network) ==
  IF tokenAddress # <<>> /\ network # <<>>
  THEN {CacheKey(tokenAddress, network)}
  ELSE IF tokenAddress # <<>>
  THEN {k \in DOMAIN priceCache : startsWith(k, toLowerCase(tokenAddress) \o <<"_">>)}
  ELSE IF network # <<>>
  THEN {k \in DOMAIN priceCache : endsWith(k, <<"_">> \o network)}
  ELSE DOMAIN priceCache

\* whether clearCache(tokenAddress?, network?) is aimed at a key, in the
\* cache or not
Invalidates(tokenAddress, network, cacheKey) ==
  IF tokenAddress # <<>> /\ network # <<>>
  THEN cacheKey = CacheKey(tokenAddress, network)
  ELSE IF tokenAddress # <<>>
  THEN startsWith(cacheKey, toLowerCase(tokenAddress) \o <<"_">>)
  ELSE IF network # <<>>
  THEN endsWith(cacheKey, <<"_">> \o network)
  ELSE TRUE

\* the observer marks the derivations in flight for a key the call is
\* aimed at
clearCache(tokenAddress, network) ==
  /\ priceCache' = [k \in DOMAIN priceCache \ ClearedKeys(tokenAddress, network) |->
                      priceCache[k]]
  /\ lastOk' = << >>
  /\ last' = [NoReturn EXCEPT !.op = "clearCache", !.result = "ok",
                              !.call = [IdleCall EXCEPT !.pc = "done",
                                                        !.tokenAddress = tokenAddress,
                                                        !.network = network],
                              !.removed = Cardinality(ClearedKeys(tokenAddress, network)
                                                      \cap DOMAIN priceCache)]
  /\ obs' = [c \in Callers |->
               IF /\ gtp[c].pc # "idle"
                  /\ Invalidates(tokenAddress, network,
                                 CacheKey(gtp[c].tokenAddress, gtp[c].network))
               THEN [obs[c] EXCEPT !.stale = TRUE]
               ELSE obs[c]]
  /\ UNCHANGED <<gtp, started, now, ticks>>

\* the clock advances: first to just under the expiration time, then by a
\* millisecond at a time
Tick ==
  /\ ticks < MaxTicks
  /\ now' = now + (IF ticks = 0 THEN CACHE_EXPIRATION - 1 ELSE 1)
  /\ ticks' = ticks + 1

\* the clock and the oracle at the start: an empty cache, nothing in flight
ClockInit ==
  /\ now = 0
  /\ ticks = 0

OracleInit ==
  /\ priceCache = << >>
  /\ gtp = [c \in Callers |-> IdleCall]
  /\ obs = [c \in Callers |-> IdleObs]
  /\ last = NoReturn
  /\ lastOk = << >>
  /\ started = 0

NoQuote ==
  [token0 |-> <<>>, token1 |-> <<>>, reserve0 |-> 0, reserve1 |-> 0,
   answer |-> 0, decimals |-> 0, network |-> <<>>, price |-> Null]


OracleStep ==
  \/ \E c \in Callers, a \in TokenAddresses, n \in Networks : GetTokenPrice(c, a, n)
  \/ \E c \in Callers : FactoryGetPair(c)
  \/ \E c \in Callers : PairReads(c)
  \/ \E c \in Callers : FeedReads(c)
  \/ \E c \in Callers : StorePrice(c)
  \/ \E a \in TokenAddresses \cup {<<>>}, n \in Networks \cup {<<>>} : clearCache(a, n)
  \/ Tick /\ UNCHANGED oracleVars

\* the token whose price the one-caller oracle is asked for
RetryToken == <<"0x", "a">>

\* one invocation of getTokenPrice from its call to its return
RetryOracleStep ==
  \/ started = 0 /\ \E n \in Networks : GetTokenPrice(1, RetryToken, n)
  \/ FactoryGetPair(1)
  \/ PairReads(1)
  \/ FeedReads(1)
  \/ StorePrice(1)

(***************************************************************************)
(* The price computation of getPriceFromUniswapV2 on its own: a reading of *)
(* a pool that holds the reference asset, and of the feed.                 *)
(***************************************************************************)
\* reserves a pool may hold, in base units
QuoteReserves == { 0, 10 * WeiPerEther, 25 * WeiPerEther, 20000 * WeiPerEther }

QuoteAnswers == { 300000, 150000, 0 }

\* the readings: the reference asset is token0 or token1 of the pool
QuoteInputs ==
  { [NoQuote EXCEPT !.token0 = t[1], !.token1 = t[2], !.reserve0 = r0, !.reserve1 = r1,
                    !.answer = a, !.decimals = d, !.network = n] :
      t \in { <<WethOf(n), <<"0x", "a">>>> : n \in factoryAddresses }
            \cup { <<<<"0x", "B">>, toLowerCase(WethOf(n))>> : n \in factoryAddresses },
      r0 \in QuoteReserves, r1 \in QuoteReserves,
      a \in QuoteAnswers, d \in FeedDecimals, n \in factoryAddresses }

\* the pool of a reading holds the reference asset of its network
HoldsWeth(q) ==
  \/ toLowerCase(q.token0) = toLowerCase(WethOf(q.network))
  \/ toLowerCase(q.token1) = toLowerCase(WethOf(q.network))


\* getPriceFromUniswapV2 from the feed price on: lines 183-199
ComputeQuote ==
  /\ quote.price = Null
  /\ quote' = [quote EXCEPT !.price =
                 TokenPrice(quote.token0, quote.reserve0, quote.reserve1,
                            formatUnits(quote.answer, quote.decimals), quote.network)]
  /\ UNCHANGED <<now, ticks, oracleVars>>

(***************************************************************************)
(* ContractInteractionService: binding and event subscriptions.            *)
(***************************************************************************)
\* initialize() invocations explored
MaxInits == 2
\* subscribeToEvent invocations explored
MaxSubs == 2

\* the ContractConfig a service is constructed with: which optional fields
\* are present (address and providerUrl always are; a private key, when
\* present, is a well-formed one)
Configs ==
  [abi : BOOLEAN, etherscanApiKey : BOOLEAN, etherscanNetwork : BOOLEAN,
   privateKey : BOOLEAN]

\* event names of the bound contract that callers subscribe to
EventNames == { <<"Transfer">>, <<"Approval">> }

\* Date.now() as it is spliced into a template string
TimeString(t) == <<ToString(t)>>

\* listenerId.split('-')[0]: the text before the first '-'
RECURSIVE SplitFirst(_)
SplitFirst(s) ==
  IF s = <<>> \/ Head(s) = "-" THEN <<>> ELSE <<Head(s)>> \o SplitFirst(Tail(s))

\* listenerId = `${eventName}-${Date.now()}`
ListenerId(eventName, t) == eventName \o <<"-">> \o TimeString(t)

\* a function without the key k
Without(f, k) == [x \in DOMAIN f \ {k} |-> f[x]]

\* a function with the key k set to v
With(f, k, v) == [x \in DOMAIN f \cup {k} |-> IF x = k THEN v ELSE f[x]]

\* the record of a return of the service: operation, outcome, value
Returned(op, result, value) == [op |-> op, result |-> result, value |-> value]

\* the lines 42-48 of initialize(): the wallet and a new contract instance
Bind ==
  /\ wallet' = (IF config.privateKey THEN TRUE ELSE wallet)
  /\ contract' = contract + 1

\* the network a config names for the explorer, when it names one
ConfiguredNetwork == <<"goerli">>

\* the network argument without the default
EtherscanNetworkAsGiven(cfg) ==
  IF cfg.etherscanNetwork THEN ConfiguredNetwork ELSE <<>>

\* this.config.etherscanNetwork || 'mainnet'
EtherscanNetwork(cfg) ==
  IF cfg.etherscanNetwork THEN ConfiguredNetwork ELSE <<"mainnet">>

\* `if (!this.config.abi)` taken whatever the config holds
AbiMissingAlways(cfg) == TRUE

\* `!this.config.abi`
AbiMissing(cfg) == ~cfg.abi

\* initialize() up to its first await, or to its end when the ABI is there
Initialize ==
  /\ initPc = "idle"
  /\ inits < MaxInits
  /\ IF AbiMissing(config)
     THEN IF ~config.etherscanApiKey
          THEN \* throw new Error('Either ABI or Etherscan API key must be provided')
               /\ ret' = Returned("initialize", "AbiResolutionError", <<>>)
               /\ inits' = inits + 1
               /\ UNCHANGED <<config, contract, wallet, initPc, explorerRequests,
                              explorerNetwork>>
          ELSE \* await this.getVerifiedContractABI(...): fetch(url) is sent
               /\ initPc' = "fetch"
               /\ explorerRequests' = explorerRequests + 1
               /\ explorerNetwork' = EtherscanNetwork(config)
               /\ UNCHANGED <<config, contract, wallet, inits, ret>>
     ELSE /\ Bind
          /\ ret' = Returned("initialize", "ok", <<>>)
          /\ inits' = inits + 1
          /\ UNCHANGED <<config, initPc, explorerRequests, explorerNetwork>>
  /\ UNCHANGED <<eventVars, now, ticks>>

\* a config that is given an ABI although the explorer gave none
AbiOnFailureAssigned(cfg) == [cfg EXCEPT !.abi = TRUE]

\* `this.config.abi = await ...` when the awaited call throws: the
\* assignment does not happen
AbiOnFailure(cfg) == cfg

\* getVerifiedContractABI after `await fetch(url)` and `await response.json()`
GetVerifiedContractABI ==
  /\ initPc = "fetch"
  /\ initPc' = "idle"
  /\ inits' = inits + 1
  /\ \/ \* data.status === '1' with a result that parses: the ABI is kept
        /\ config' = [config EXCEPT !.abi = TRUE]
        /\ Bind
        /\ ret' = Returned("initialize", "ok", <<>>)
     \/ \* another status, or the request or the parsing throws:
        \* throw new Error(`Could not get ABI: ...`)
        /\ ret' = Returned("initialize", "AbiResolutionError", <<>>)
        /\ config' = AbiOnFailure(config)
        /\ UNCHANGED <<contract, wallet>>
  /\ UNCHANGED <<explorerRequests, explorerNetwork, eventVars, now, ticks>>

\* subscribeToEvent(eventName, callback): synchronous
SubscribeToEvent(eventName) ==
  /\ Len(issued) < MaxSubs
  /\ IF contract = 0
     THEN /\ ret' = Returned("subscribeToEvent", "ContractNotInitializedError", <<>>)
          /\ UNCHANGED eventVars
     ELSE LET listener == Len(issued) + 1
              listenerId == ListenerId(eventName, now)
          IN /\ attached' = attached \cup {<<contract, eventName, listener>>}
             /\ eventListeners' = With(eventListeners, listenerId, listener)
             /\ issued' = Append(issued, listenerId)
             /\ ret' = Returned("subscribeToEvent", "ok", listenerId)
             /\ UNCHANGED <<revoked, lateCalls, destroyed>>
  /\ UNCHANGED <<bindingVars, now, ticks>>

\* the listeners that were handed the listenerId when they subscribed
RegisteredUnder(listenerId) ==
  { l \in 1..Len(issued) : issued[l] = listenerId }

\* the body of unsubscribeFromEvent for an id of the registry, as a change
\* of <<eventListeners, attached>>
Off(reg, att, listenerId) ==
  <<Without(reg, listenerId),
    att \ {<<contract, SplitFirst(listenerId), reg[listenerId]>>}>>

\* an unknown id raising an error
NotFoundThrows(listenerId) ==
  Returned("unsubscribeFromEvent", "ListenerNotFoundError", listenerId)

\* this.logger.warn(`Listener ${listenerId} not found`); return
NotFound(listenerId) == Returned("unsubscribeFromEvent", "ok", listenerId)

\* unsubscribeFromEvent(listenerId): synchronous
UnsubscribeFromEvent(listenerId) ==
  /\ IF contract = 0
     THEN /\ ret' = Returned("unsubscribeFromEvent", "ContractNotInitializedError", listenerId)
          /\ UNCHANGED eventVars
     ELSE IF listenerId \notin DOMAIN eventListeners
     THEN /\ ret' = NotFound(listenerId)
          /\ UNCHANGED eventVars
     ELSE /\ eventListeners' = Off(eventListeners, attached, listenerId)[1]
          /\ attached' = Off(eventListeners, attached, listenerId)[2]
          /\ revoked' = revoked \cup RegisteredUnder(listenerId)
          /\ ret' = Returned("unsubscribeFromEvent", "ok", listenerId)
          /\ UNCHANGED <<issued, lateCalls, destroyed>>
  /\ UNCHANGED <<bindingVars, now, ticks>>

\* the loop of disconnect() over this.eventListeners.keys()
RECURSIVE OffAll(_, _, _)
OffAll(reg, att, ids) ==
  IF ids = {} THEN <<reg, att>>
  ELSE LET id == CHOOSE x \in ids : TRUE
           r == Off(reg, att, id)
       IN OffAll(r[1], r[2], ids \ {id})

\* a connection that cannot be released twice
ProviderDestroyOnce(d) ==
  [destroyed |-> TRUE, result |-> IF d THEN "ProviderDestroyedError" ELSE "ok"]

\* this.provider.destroy(), on a connection that was released (d) or not:
\* the connection is released and the call returns
ProviderDestroy(d) == [destroyed |-> TRUE, result |-> "ok"]

\* disconnect(): synchronous; the value of its return record notes whether
\* the connection had been released before
Disconnect ==
  /\ eventListeners' = OffAll(eventListeners, attached, DOMAIN eventListeners)[1]
  /\ attached' = OffAll(eventListeners, attached, DOMAIN eventListeners)[2]
  /\ revoked' = revoked \cup { l \in 1..Len(issued) : issued[l] \in DOMAIN eventListeners }
  /\ destroyed' = ProviderDestroy(destroyed).destroyed
  /\ ret' = Returned("disconnect", ProviderDestroy(destroyed).result,
                     IF destroyed THEN <<"released">> ELSE <<>>)
  /\ UNCHANGED <<issued, lateCalls, bindingVars, now, ticks>>

\* the ledger delivers an event of the contract: every listener attached
\* under the event's name is invoked, and invokes its callback
Deliver(eventName) ==
  /\ ~destroyed
  /\ LET invoked == { l \in 1..Len(issued) :
                        \E k \in 1..MaxInits : <<k, eventName, l>> \in attached }
     IN /\ invoked # {}
        /\ lateCalls' = lateCalls \cup (invoked \cap revoked)
        /\ ret' = Returned("deliver", "ok", eventName)
  /\ UNCHANGED <<eventListeners, attached, issued, revoked, destroyed,
                 bindingVars, now, ticks>>

(***************************************************************************)
(* ContractInteractionService: transactions.                               *)
(***************************************************************************)
\* batchTransactions invocations explored, all of them possibly in flight
MaxBatches == 2
\* transactions per batch
MaxBatchLen == 2

Batches == 1..MaxBatches

\* { ...b, ...a }: the fields of a win
SpreadFirstWins(a, b) ==
  [x \in DOMAIN a \cup DOMAIN b |-> IF x \in DOMAIN a THEN a[x] ELSE b[x]]

\* { ...a, ...b }
Spread(a, b) ==
  [x \in DOMAIN a \cup DOMAIN b |-> IF x \in DOMAIN b THEN b[x] ELSE a[x]]

\* the tx.options a caller passes: none, or overrides of its own
TxOptions == { << >>, [gasLimit |-> 50000, nonce |-> 7] }

\* the transaction lists a caller passes, by their options
TxLists ==
  UNION { [1..k -> TxOptions] : k \in 0..MaxBatchLen }

IdleBatch ==
  [pc |-> "idle", txs |-> << >>, receipts |-> 0, nonce |-> 0, n0 |-> 0,
   reads |-> 0, sent |-> << >>, failures |-> {}, stage |-> "none",
   error |-> "none"]

\* the errors the connection layer throws when a transaction is submitted
\* (the gas estimate finds it would revert, the balance does not cover it),
\* and when its receipt is awaited (it reverted, it was replaced); the
\* service passes them on as they are
SubmitErrors == { "CALL_EXCEPTION", "INSUFFICIENT_FUNDS" }

WaitErrors == { "CALL_EXCEPTION", "TRANSACTION_REPLACED" }

IdleSend == [pc |-> "idle", submitted |-> 0]

TxInit ==
  /\ batches = [b \in Batches |-> IdleBatch]
  /\ mined = {}
  /\ stx = IdleSend

\* nonce++ without the increment
NextNonceStuck(nonce) == nonce

\* nonce++ : the value of the local after the expression
NextNonce(nonce) == nonce + 1

\* LoopHead that submits every remaining transaction at once
LoopHeadAll(rec) ==
  IF rec.receipts = Len(rec.txs)
  THEN [rec EXCEPT !.pc = "done"]
  ELSE LET n == Len(rec.txs) - rec.receipts
       IN [rec EXCEPT !.pc = "submit",
                      !.nonce = rec.nonce + n,
                      !.sent = rec.sent \o
                               [i \in 1..n |-> Spread(rec.txs[rec.receipts + i],
                                                      [nonce |-> rec.nonce + (i - 1)])]]

\* the head of `for (const tx of transactions)`: the next transaction is
\* given its options and sendTransaction submits it, or the batch returns
LoopHead(rec) ==
  IF rec.receipts = Len(rec.txs)
  THEN [rec EXCEPT !.pc = "done"]
  ELSE LET options == Spread(rec.txs[rec.receipts + 1], [nonce |-> rec.nonce])
       IN [rec EXCEPT !.pc = "submit",
                      !.nonce = NextNonce(rec.nonce),
                      !.sent = Append(rec.sent, options)]

\* a failure that lets the loop go on with the next transaction
AbortSkip(rec, error) ==
  LoopHead([rec EXCEPT !.receipts = @ + 1, !.error = error])

\* catch (error) { ...; throw error } : the batch rejects
Abort(rec, error) == [rec EXCEPT !.pc = "failed", !.error = error]

\* the failure of the transaction in hand, as an observer records it: its
\* index, and whether it was being submitted or awaited
Failed(rec) == [rec EXCEPT !.failures = @ \cup {rec.receipts}, !.stage = rec.pc]

\* the lowest slot no batchTransactions invocation has used
FreeBatch ==
  IF \E b \in Batches : batches[b].pc = "idle"
  THEN CHOOSE b \in Batches :
         batches[b].pc = "idle" /\ \A x \in Batches : batches[x].pc = "idle" => b <= x
  ELSE 0

\* batchTransactions(transactions) up to `await this.getNonce()`
BatchTransactions(b, txs) ==
  /\ b = FreeBatch
  /\ LET rec == [batches[b] EXCEPT !.txs = txs]
     IN batches' = [batches EXCEPT ![b] =
          IF contract = 0 THEN [rec EXCEPT !.pc = "rejected", !.error = "ContractNotInitializedError"]
          ELSE IF ~wallet THEN [rec EXCEPT !.pc = "rejected", !.error = "NoSigningIdentityError"]
          ELSE [rec EXCEPT !.pc = "getNonce", !.reads = @ + 1]]
  /\ UNCHANGED <<mined, sendVars, bindingVars, eventVars, ret, now, ticks>>

\* wallet.getNonce() answers, or throws
GetNonce(b) ==
  /\ batches[b].pc = "getNonce"
  /\ \/ LET n == Cardinality(mined)
        IN batches' = [batches EXCEPT ![b] =
             LoopHead([batches[b] EXCEPT !.nonce = n, !.n0 = n])]
     \/ batches' = [batches EXCEPT ![b] =
             [batches[b] EXCEPT !.pc = "failed", !.error = "NETWORK_ERROR"]]
  /\ UNCHANGED <<mined, sendVars, bindingVars, eventVars, ret, now, ticks>>

\* sendTransaction: `await this.contract[method](...args, options)` answers
\* with the transaction, or throws
SendTransaction(b) ==
  /\ batches[b].pc = "submit"
  /\ \/ batches' = [batches EXCEPT ![b] = [batches[b] EXCEPT !.pc = "wait"]]
     \/ \E e \in SubmitErrors :
          batches' = [batches EXCEPT ![b] = Abort(Failed(batches[b]), e)]
  /\ UNCHANGED <<mined, sendVars, bindingVars, eventVars, ret, now, ticks>>

\* sendTransaction: `await tx.wait()` answers with the receipt, or throws
Wait(b) ==
  /\ batches[b].pc = "wait"
  /\ \/ /\ mined' = mined \cup {<<b, batches[b].receipts>>}
        /\ batches' = [batches EXCEPT ![b] =
             LoopHead([batches[b] EXCEPT !.receipts = @ + 1])]
     \/ /\ \E e \in WaitErrors :
             batches' = [batches EXCEPT ![b] = Abort(Failed(batches[b]), e)]
        /\ UNCHANGED mined
  /\ UNCHANGED <<sendVars, bindingVars, eventVars, ret, now, ticks>>

TxStep ==
  \/ Initialize /\ UNCHANGED <<txVars, sendVars>>
  \/ GetVerifiedContractABI /\ UNCHANGED <<txVars, sendVars>>
  \/ \E b \in Batches, txs \in TxLists : BatchTransactions(b, txs)
  \/ \E b \in Batches : GetNonce(b)
  \/ \E b \in Batches : SendTransaction(b)
  \/ \E b \in Batches : Wait(b)

(***************************************************************************)
(* ContractInteractionService: single calls.                               *)
(***************************************************************************)
\* sendTransaction invocations of callers explored, one at a time
MaxSends == 1

\* the errors the connection layer throws on a read
ReadErrors == { "CALL_EXCEPTION" }

\* a guard on the contract that never fires
NotInitializedNever(c) == FALSE

\* `!this.contract`
NotInitialized(c) == c = 0

\* a guard on the wallet that never fires
NoSignerNever(w) == FALSE

\* `!this.wallet`
NoSigner(w) == ~w

\* Query that leaves a live listener of the filter on the contract
QueryAttaches(op) ==
  /\ IF NotInitialized(contract)
     THEN /\ ret' = Returned(op, "ContractNotInitializedError", <<>>)
          /\ UNCHANGED attached
     ELSE /\ \E r \in {"ok"} \cup ReadErrors : ret' = Returned(op, r, <<"rpc">>)
          /\ attached' = attached \cup {<<contract, <<"Transfer">>, 0>>}
  /\ UNCHANGED <<bindingVars, eventListeners, issued, revoked, lateCalls, destroyed,
                 txVars, sendVars, now, ticks>>

\* the shape call, estimateGas and getPastEvents share: the guard on the
\* contract, then one awaited request whose result or error is passed on;
\* the value of the return record notes that the network was asked
Query(op) ==
  /\ IF NotInitialized(contract)
     THEN ret' = Returned(op, "ContractNotInitializedError", <<>>)
     ELSE \E r \in {"ok"} \cup ReadErrors : ret' = Returned(op, r, <<"rpc">>)
  /\ UNCHANGED <<bindingVars, eventVars, txVars, sendVars, now, ticks>>

\* call(method, ...args)
Call == Query("call")

\* estimateGas(method, ...args)
EstimateGas == Query("estimateGas")

\* getPastEvents(eventName, filter)
GetPastEvents == Query("getPastEvents")

\* getNonce() of a caller: the guard on the wallet, then
\* `await this.wallet.getNonce()`
getNonce ==
  /\ IF NoSigner(wallet)
     THEN ret' = Returned("getNonce", "NoSigningIdentityError", <<>>)
     ELSE \E r \in {"ok"} \cup ReadErrors : ret' = Returned("getNonce", r, <<"rpc">>)
  /\ UNCHANGED <<bindingVars, eventVars, txVars, sendVars, now, ticks>>

\* the transactions of callers' own sendTransaction that are confirmed
SentAlone == { m \in mined : m[1] = 0 }

\* sendTransaction(method, args, options) of a caller, up to
\* `await this.contract[method](...args, options)`
SendTransactionStart ==
  /\ stx.pc = "idle"
  /\ Cardinality(SentAlone) < MaxSends
  /\ IF NotInitialized(contract)
     THEN /\ ret' = Returned("sendTransaction", "ContractNotInitializedError", <<>>)
          /\ UNCHANGED stx
     ELSE IF NoSigner(wallet)
     THEN /\ ret' = Returned("sendTransaction", "NoSigningIdentityError", <<>>)
          /\ UNCHANGED stx
     ELSE /\ stx' = [pc |-> "submit", submitted |-> stx.submitted + 1]
          /\ UNCHANGED ret
  /\ UNCHANGED <<txVars, bindingVars, eventVars, now, ticks>>

\* SendTransactionSubmitted that submits again when the submission throws
SendTransactionResubmitted ==
  /\ stx.pc = "submit"
  /\ \/ /\ stx' = [stx EXCEPT !.pc = "wait"]
        /\ UNCHANGED ret
     \/ /\ stx' = [stx EXCEPT !.submitted = @ + 1]
        /\ UNCHANGED ret
  /\ UNCHANGED <<txVars, bindingVars, eventVars, now, ticks>>

\* the submission answers with the transaction, or throws: the catch logs
\* and throws the same error
SendTransactionSubmitted ==
  /\ stx.pc = "submit"
  /\ \/ /\ stx' = [stx EXCEPT !.pc = "wait"]
        /\ UNCHANGED ret
     \/ \E e \in SubmitErrors :
          /\ stx' = IdleSend
          /\ ret' = Returned("sendTransaction", e, <<"rpc">>)
  /\ UNCHANGED <<txVars, bindingVars, eventVars, now, ticks>>

\* `await tx.wait()` answers with the receipt, or throws: the catch logs
\* and throws the same error
SendTransactionConfirmed ==
  /\ stx.pc = "wait"
  /\ \/ /\ stx' = IdleSend
        /\ mined' = mined \cup {<<0, Cardinality(SentAlone)>>}
        /\ ret' = Returned("sendTransaction", "ok", <<"rpc">>)
     \/ \E e \in WaitErrors :
          /\ stx' = IdleSend
          /\ ret' = Returned("sendTransaction", e, <<"rpc">>)
          /\ UNCHANGED mined
  /\ UNCHANGED <<batches, bindingVars, eventVars, now, ticks>>

\* every operation the guards protect, with one batch and the callers'
\* sendTransaction side by side
OpsStep ==
  \/ Initialize /\ UNCHANGED <<txVars, sendVars>>
  \/ GetVerifiedContractABI /\ UNCHANGED <<txVars, sendVars>>
  \/ Call
  \/ EstimateGas
  \/ GetPastEvents
  \/ getNonce
  \/ SubscribeToEvent(<<"Transfer">>) /\ UNCHANGED <<txVars, sendVars>>
  \/ SendTransactionStart
  \/ SendTransactionSubmitted
  \/ SendTransactionConfirmed
  \/ \E txs \in {t \in TxLists : Len(t) <= 1} : BatchTransactions(1, txs)
  \/ GetNonce(1)
  \/ SendTransaction(1)
  \/ Wait(1)

\* the longest lists of transactions without options
RetryTxLists == { t \in TxLists : Len(t) = MaxBatchLen /\ \A i \in 1..Len(t) : t[i] = << >> }

\* the operations that reach the network to change something or to fetch
\* what a binding needs, one invocation of each at a time
RetryServiceStep ==
  \/ Initialize /\ UNCHANGED <<txVars, sendVars>>
  \/ GetVerifiedContractABI /\ UNCHANGED <<txVars, sendVars>>
  \/ SendTransactionStart
  \/ SendTransactionSubmitted
  \/ SendTransactionConfirmed
  \/ \E txs \in RetryTxLists : BatchTransactions(1, txs)
  \/ GetNonce(1)
  \/ SendTransaction(1)
  \/ Wait(1)

\* a listenerId nobody was ever handed
UnknownId == <<"Transfer", "-", "0", "x">>

ServiceInit ==
  /\ config \in Configs
  /\ contract = 0
  /\ wallet = FALSE
  /\ initPc = "idle"
  /\ inits = 0
  /\ explorerRequests = 0
  /\ explorerNetwork = <<>>
  /\ eventListeners = << >>
  /\ attached = {}
  /\ issued = << >>
  /\ revoked = {}
  /\ lateCalls = {}
  /\ destroyed = FALSE
  /\ ret = Returned("none", "none", <<>>)
  /\ TxInit

\* the service before use, for the specifications that do not exercise it
ServiceUnused ==
  /\ ServiceInit
  /\ config = [abi |-> TRUE, etherscanApiKey |-> FALSE, etherscanNetwork |-> FALSE,
               privateKey |-> FALSE]

EventsStep ==
  \/ Initialize
  \/ GetVerifiedContractABI
  \/ \E e \in EventNames : SubscribeToEvent(e)
  \/ \E id \in {issued[l] : l \in 1..Len(issued)} \cup {UnknownId} : UnsubscribeFromEvent(id)
  \/ \E e \in EventNames : Deliver(e)
  \/ Disconnect
  \/ Tick /\ UNCHANGED serviceVars

\* event names with the character that separates name and time in a
\* listenerId
HyphenatedNames == { <<"Token", "-", "Sale">> }

\* the events a caller of the naming study subscribes to
StudiedNames == { <<"Transfer">> } \cup HyphenatedNames

\* subscriptions under any name a caller may pass
NamesStep ==
  \/ Initialize
  \/ GetVerifiedContractABI
  \/ \E e \in StudiedNames : SubscribeToEvent(e)
  \/ \E id \in {issued[l] : l \in 1..Len(issued)} : UnsubscribeFromEvent(id)
  \/ \E e \in StudiedNames : Deliver(e)
  \/ Disconnect
  \/ Tick /\ UNCHANGED serviceVars

(***************************************************************************)
(* Specifications.                                                         *)
(***************************************************************************)
\* the price oracle under concurrent callers
InitOracle == ClockInit /\ OracleInit /\ quote = NoQuote /\ ServiceUnused

NextOracle == OracleStep /\ UNCHANGED <<quote, serviceVars>>

SpecOracle == InitOracle /\ [][NextOracle]_vars

\* the price computation on every reading
InitQuote ==
  /\ ClockInit
  /\ OracleInit
  /\ ServiceUnused
  /\ quote \in { q \in QuoteInputs : HoldsWeth(q) }

NextQuote == ComputeQuote /\ UNCHANGED serviceVars

SpecQuote == InitQuote /\ [][NextQuote]_vars

\* the contract service: binding and event subscriptions
InitEvents == ClockInit /\ OracleInit /\ quote = NoQuote /\ ServiceInit

NextEvents == EventsStep /\ UNCHANGED <<oracleVars, quote, txVars, sendVars>>

SpecEvents == InitEvents /\ [][NextEvents]_vars

\* the contract service: binding and batches of transactions
InitTx == ClockInit /\ OracleInit /\ quote = NoQuote /\ ServiceInit

NextTx == TxStep /\ UNCHANGED <<oracleVars, quote>>

SpecTx == InitTx /\ [][NextTx]_vars

\* the contract service: the guarded operations
InitOps == ClockInit /\ OracleInit /\ quote = NoQuote /\ ServiceInit

NextOps == OpsStep /\ UNCHANGED <<oracleVars, quote>>

SpecOps == InitOps /\ [][NextOps]_vars


\* every operation that reaches the network, one invocation of each at a
\* time, the oracle beside the contract service
InitRetry ==
  /\ ClockInit
  /\ OracleInit
  /\ quote = NoQuote
  /\ ServiceInit
  /\ config.privateKey

NextRetry ==
  \/ RetryOracleStep /\ UNCHANGED <<quote, serviceVars>>
  \/ RetryServiceStep /\ UNCHANGED <<oracleVars, quote>>

SpecRetry == InitRetry /\ [][NextRetry]_vars

\* the contract service: subscriptions under names with a '-'
InitNames == ClockInit /\ OracleInit /\ quote = NoQuote /\ ServiceInit

NextNames == NamesStep /\ UNCHANGED <<oracleVars, quote, txVars, sendVars>>

SpecNames == InitNames /\ [][NextNames]_vars

(***************************************************************************)
(* Properties of the price cache.                                          *)
(***************************************************************************)
\* C1: an invocation that starts while the last successful derivation for its
\* key (lowercased address, network) is younger than the expiration time,
\* with no clearCache since, returns at once the price of that derivation
\* and reads nothing from the factory, the pool or the feed.
C1_FreshEntryServed ==
  /\ \A c \in Callers : obs[c].expect = Null
  /\ (last.op = "getTokenPrice" /\ last.obs.expect # Null)
       => /\ last.result = "ok"
          /\ last.value = last.obs.expect
          /\ last.obs.reads = 0

\* an invocation was served the price derived for the same address in the
\* other letter case, after the clock advanced
C1_Witness ==
  /\ last.op = "getTokenPrice"
  /\ last.result = "ok"
  /\ last.obs.expect # Null
  /\ last.obs.otherCase
  /\ last.obs.reads = 0
  /\ now > 0

\* C2: a price is served from the cache only if the entry is younger than
\* the expiration time; an invocation that finds an entry of age >= 5 minutes
\* (the boundary included) derives, and returns the price computed from the
\* pool and feed values it read itself.
C2_ExpiredNeverServed ==
  (last.op = "getTokenPrice" /\ last.result = "ok")
    => IF last.obs.reads = 0
       THEN last.obs.entry = "fresh"
       ELSE last.value = TokenPrice(last.call.token0, last.call.reserve0,
                                    last.call.reserve1, last.call.wethPrice,
                                    last.call.network)

\* an invocation found an entry of age exactly CACHE_EXPIRATION and returned
\* a price it derived
C2_Witness ==
  /\ last.op = "getTokenPrice"
  /\ last.result = "ok"
  /\ last.obs.entry = "boundary"
  /\ last.obs.reads > 0
  /\ last.value # Null

ReferenceReserve(q) ==
  IF toLowerCase(q.token0) = toLowerCase(WethOf(q.network)) THEN q.reserve0 ELSE q.reserve1

TokenReserve(q) ==
  IF toLowerCase(q.token0) = toLowerCase(WethOf(q.network)) THEN q.reserve1 ELSE q.reserve0

\* C8: the derived price is referenceReserve * referencePriceUSD / tokenReserve
\* (as an exact fraction, for a token reserve that is not zero), the reference
\* reserve being reserve0 when token0 is the reference asset and reserve1 when
\* token1 is; token0 = WETH, reserve0 = 10, reserve1 = 20000 and a reference
\* price of 3000 give 3/2.
C8_ReserveRatioPrice ==
  quote.price # Null
    => /\ TokenReserve(quote) # 0
          => LET ratio == Rat(ReferenceReserve(quote), TokenReserve(quote))
                 usd == Rat(quote.answer, Pow10(quote.decimals))
             IN /\ quote.price.k = "fin"
                /\ quote.price.n * (ratio.d * usd.d) = quote.price.d * (ratio.n * usd.n)
       /\ ( /\ quote.token0 = WethOf(quote.network)
            /\ quote.reserve0 = 10 * WeiPerEther
            /\ quote.reserve1 = 20000 * WeiPerEther
            /\ quote.answer = 300000 /\ quote.decimals = 2 )
          => quote.price = Fin(3, 2)

\* the price of the reading token0 = WETH, 10 and 20000, 3000 was computed
C8_Witness ==
  /\ quote.token0 = WethOf(quote.network)
  /\ quote.reserve0 = 10 * WeiPerEther
  /\ quote.reserve1 = 20000 * WeiPerEther
  /\ quote.answer = 300000
  /\ quote.price = Fin(3, 2)

(***************************************************************************)
(* Properties of the contract service.                                     *)
(***************************************************************************)
\* C3: a batch reads the signer's nonce once, before it submits anything,
\* and submits its i-th transaction (0-based, in list order) with the
\* nonce n+i, n being that reading; a batch that returns has submitted
\* every transaction of its list.
C3_BatchNonces ==
  \A b \in Batches :
    LET rec == batches[b]
    IN /\ rec.reads <= 1
       /\ rec.pc \in {"getNonce", "submit", "wait", "done", "failed"} => rec.reads = 1
       /\ rec.sent # << >> => rec.reads = 1 /\ rec.pc # "getNonce"
       /\ Len(rec.sent) <= Len(rec.txs)
       /\ \A i \in 1..Len(rec.sent) :
            /\ rec.sent[i].nonce = rec.n0 + (i - 1)
            /\ rec.sent[i] = Spread(rec.txs[i], [nonce |-> rec.n0 + (i - 1)])
       /\ rec.pc = "done" => Len(rec.sent) = Len(rec.txs)

\* a batch of two transactions, the first with a nonce of its own in its
\* options, has returned after reading a nonce that another batch had moved
C3_Witness ==
  \E b \in Batches :
    /\ batches[b].pc = "done"
    /\ Len(batches[b].sent) = MaxBatchLen
    /\ "nonce" \in DOMAIN batches[b].txs[1]
    /\ batches[b].n0 > 0

\* C4: when the transaction at index j of a batch fails, at submission or
\* at confirmation, the batch rejects at once: no transaction after j is
\* ever submitted, none is submitted twice, the transactions before j are
\* confirmed, and no confirmed transaction is ever taken back.
C4_BatchAbortsOnFailure ==
  [][ /\ mined \subseteq mined'
      /\ \A b \in Batches :
           LET rec == batches'[b]
           IN rec.failures # {} =>
                /\ rec.pc = "failed"
                /\ \A j \in rec.failures :
                     /\ Len(rec.sent) = j + 1
                     /\ \A x \in 0..(j - 1) : <<b, x>> \in mined'
      /\ \A b \in Batches :
           batches[b].pc = "failed" => batches'[b] = batches[b] ]_vars

\* one batch failed at its second transaction with the first confirmed,
\* another failed at the first of its two transactions
C4_Witness ==
  \E b, c \in Batches :
    /\ batches[b].pc = "failed" /\ batches[b].failures = {1}
    /\ <<b, 0>> \in mined
    /\ batches[c].pc = "failed" /\ batches[c].failures = {0}
    /\ Len(batches[c].txs) = MaxBatchLen /\ Len(batches[c].sent) = 1

\* C5: once unsubscribeFromEvent(id) has returned for an id that
\* subscribeToEvent handed out, the callback registered under that id is
\* not invoked for any event delivered afterwards (on a service bound once).
C5_NoCallbackAfterUnsubscribe ==
  contract <= 1 => lateCalls = {}

\* C6, as stated: unsubscribeFromEvent with an id that is not in the
\* registry does not throw and leaves the registry and the attached
\* listeners as they are, bound or not.
C6_UnknownIdNeverThrows ==
  [][ \A id \in {issued[l] : l \in 1..Len(issued)} \cup {UnknownId} :
        (UnsubscribeFromEvent(id) /\ id \notin DOMAIN eventListeners)
          => /\ ret'.result = "ok"
             /\ eventListeners' = eventListeners
             /\ attached' = attached ]_vars

\* C6, amended: unsubscribeFromEvent with an id that is not in the registry
\* leaves the registry and the attached listeners as they are; it returns
\* normally on a bound service and throws 'Contract not initialized' on a
\* service that is not bound.
C6_UnknownIdLeavesRegistry ==
  [][ \A id \in {issued[l] : l \in 1..Len(issued)} \cup {UnknownId} :
        (UnsubscribeFromEvent(id) /\ id \notin DOMAIN eventListeners)
          => /\ ret'.result = (IF contract = 0 THEN "ContractNotInitializedError" ELSE "ok")
             /\ eventListeners' = eventListeners
             /\ attached' = attached ]_vars

\* an id never handed out was unsubscribed on a bound service that holds
\* a subscription, and the call returned
C6_Witness ==
  /\ ret = Returned("unsubscribeFromEvent", "ok", UnknownId)
  /\ contract # 0
  /\ DOMAIN eventListeners # {}
  /\ attached # {}

\* C7: initialize() with neither an ABI nor an explorer API key fails
\* without a request to the explorer and leaves the service unbound;
\* initialize() with an ABI and no explorer API key succeeds, binds the
\* contract and sends no request to the explorer.
C7_InitializeAbiSources ==
  [][ Initialize =>
        /\ (~config.abi /\ ~config.etherscanApiKey) =>
             /\ ret' = Returned("initialize", "AbiResolutionError", <<>>)
             /\ explorerRequests' = 0
             /\ initPc' = "idle"
             /\ contract' = 0 /\ ~wallet'
        /\ (config.abi /\ ~config.etherscanApiKey) =>
             /\ ret' = Returned("initialize", "ok", <<>>)
             /\ explorerRequests' = 0
             /\ initPc' = "idle"
             /\ contract' # 0
             /\ wallet' = config.privateKey ]_vars

\* initialize() has failed on a config with neither source of the ABI
C7_Witness ==
  /\ ~config.abi /\ ~config.etherscanApiKey
  /\ inits > 0
  /\ ret = Returned("initialize", "AbiResolutionError", <<>>)
  /\ explorerRequests = 0 /\ contract = 0

\* C10: every listenerId subscribeToEvent returns is different from every
\* id it returned before (on a service bound once), also for two
\* subscriptions to one event name within the same millisecond.
C10_ListenerIdsUnique ==
  contract <= 1 =>
    \A i, j \in 1..Len(issued) : i # j => issued[i] # issued[j]
(***************************************************************************)
(* Properties of failing price lookups.                                    *)
(***************************************************************************)
\* C16: a getTokenPrice call that fails writes nothing to the price cache:
\* the step on which it throws leaves every entry as it was, and the cache
\* only ever changes on a clearCache or on a lookup that returns a price
\* it derived.
C16_FailureWritesNothing ==
  [][ /\ (last'.op = "getTokenPrice" /\ last'.result = "error")
           => priceCache' = priceCache
      /\ priceCache' # priceCache
           => \/ last'.op = "clearCache"
              \/ /\ last'.op = "getTokenPrice" /\ last'.result = "ok"
                 /\ last'.obs.reads > 0
                 /\ \A k \in DOMAIN priceCache' :
                      k # CacheKey(last'.call.tokenAddress, last'.call.network)
                        => k \in DOMAIN priceCache /\ priceCache'[k] = priceCache[k] ]_vars

\* a lookup has failed after reading the network while the cache holds an
\* expired entry for its key, which is still there
C16_Witness ==
  /\ last.op = "getTokenPrice" /\ last.result = "error"
  /\ last.obs.reads > 0
  /\ CacheKey(last.call.tokenAddress, last.call.network) \in DOMAIN priceCache
  /\ AgeClass(CacheKey(last.call.tokenAddress, last.call.network))
       \in {"boundary", "older"}

\* C17: whenever getTokenPrice fails, for want of a factory on the network,
\* of a pair, of a reference-asset address on the network, of the reference
\* asset in the pool or of a feed for its symbol, the caller is thrown the
\* one failure PriceUnavailableError, never another exception, and is given
\* no value.
C17_OneTypedFailure ==
  /\ (last.op = "getTokenPrice" /\ last.result = "error")
       => /\ last.raised = "PriceUnavailableError"
          /\ last.value = Null
          /\ last.cause \in {"NoFactory", "NoPair", "NoWethAddress",
                             "NoReferenceAsset", "NoFeed", "ReadThrows"}
  /\ (last.op = "getTokenPrice" /\ last.result = "ok")
       => last.value # Null /\ last.raised = "none"

\* a lookup has failed on a read that threw, after the pool was found
C17_Witness ==
  /\ last.op = "getTokenPrice" /\ last.result = "error"
  /\ last.cause = "ReadThrows"
  /\ last.obs.reads > 1
  /\ last.raised = "PriceUnavailableError"

(***************************************************************************)
(* Properties of teardown and of the guards of the contract service.       *)
(***************************************************************************)
\* C11: when disconnect() returns (on a service bound once), the registry
\* is empty and no listener of the service is still attached.
C11_DisconnectDetachesAll ==
  (ret.op = "disconnect" /\ contract <= 1)
    => DOMAIN eventListeners = {} /\ attached = {}

\* C12: disconnect() on a service that is already disconnected, with no
\* operation in between, returns normally and leaves the registry, the
\* attached listeners, the binding and the connection as they were.
C12_DisconnectIdempotent ==
  [][ (Disconnect /\ ret.op = "disconnect" /\ destroyed)
        => /\ ret'.result = "ok"
           /\ eventListeners' = eventListeners
           /\ attached' = attached
           /\ destroyed' = destroyed
           /\ UNCHANGED bindingVars ]_vars

\* a second disconnect() has returned on a bound service that had held
\* subscriptions
C12_Witness ==
  /\ ret = Returned("disconnect", "ok", <<"released">>)
  /\ contract # 0
  /\ Len(issued) > 0
  /\ destroyed

\* C13: call, sendTransaction, batchTransactions, subscribeToEvent,
\* getPastEvents and estimateGas, invoked while no initialize() has
\* succeeded, each fail with ContractNotInitializedError, ask the network
\* nothing (no request, no nonce read, no submission, no listener attached)
\* and leave the binding, the registry and the confirmed transactions as
\* they were.
C13_GuardedBeforeBind ==
  [][ contract = 0 =>
        /\ (Call \/ EstimateGas \/ GetPastEvents)
             => /\ ret'.result = "ContractNotInitializedError"
                /\ ret'.value = <<>>
                /\ UNCHANGED <<bindingVars, eventVars, txVars, sendVars>>
        /\ SendTransactionStart
             => /\ ret' = Returned("sendTransaction", "ContractNotInitializedError", <<>>)
                /\ stx'.pc = "idle"
                /\ UNCHANGED <<bindingVars, eventVars, txVars>>
        /\ (\E txs \in TxLists : BatchTransactions(1, txs))
             => /\ batches'[1].pc = "rejected"
                /\ batches'[1].error = "ContractNotInitializedError"
                /\ batches'[1].reads = 0 /\ batches'[1].sent = << >>
                /\ UNCHANGED <<bindingVars, eventVars, mined, sendVars>>
        /\ SubscribeToEvent(<<"Transfer">>)
             => /\ ret'.result = "ContractNotInitializedError"
                /\ UNCHANGED <<bindingVars, eventVars>> ]_vars

\* after an initialize() that failed, a batch was rejected and estimateGas
\* has thrown, both for want of a contract
C13_Witness ==
  /\ contract = 0 /\ inits > 0
  /\ ret = Returned("estimateGas", "ContractNotInitializedError", <<>>)
  /\ batches[1].pc = "rejected"
  /\ batches[1].error = "ContractNotInitializedError"

C15_StagesDistinguishable ==
  \A b, c \in Batches :
    (batches[b].stage = "submit" /\ batches[c].stage = "wait")
      => batches[b].error # batches[c].error

\* C18: when the explorer answers with a status other than "1", or the
\* request fails, initialize() fails with AbiResolutionError and binds
\* nothing: no contract, no signing identity, config.abi still absent; a
\* call() made afterwards fails with ContractNotInitializedError.
C18_ExplorerFailureLeavesUnbound ==
  [][ /\ (GetVerifiedContractABI /\ ret'.result # "ok")
           => /\ ret' = Returned("initialize", "AbiResolutionError", <<>>)
              /\ contract' = 0 /\ ~wallet' /\ ~config'.abi
              /\ initPc' = "idle"
      /\ (Call /\ ~config.abi /\ explorerRequests > 0 /\ initPc = "idle")
           => ret' = Returned("call", "ContractNotInitializedError", <<>>) ]_vars

\* the explorer was asked and gave no ABI to a config that carries a
\* private key, and a call() made after that has thrown
C18_Witness ==
  /\ ret = Returned("call", "ContractNotInitializedError", <<>>)
  /\ explorerRequests > 0 /\ initPc = "idle"
  /\ ~config.abi /\ config.privateKey
  /\ contract = 0 /\ ~wallet

\* C19, as stated: a bound service was constructed with an ABI, or with
\* both an explorer API key and an explorer network.
C19_BindingNeedsKeyAndNetwork ==
  contract # 0 =>
    \/ explorerRequests = 0 /\ config.abi
    \/ config.etherscanApiKey /\ config.etherscanNetwork

\* C19, amended: a bound service was constructed with an ABI, or with an
\* explorer API key; the explorer that gave the ABI is the one of the
\* configured network or, when the config names none, of "mainnet".
C19_BindingNeedsAbiOrKey ==
  contract # 0 =>
    \/ explorerRequests = 0 /\ config.abi
    \/ /\ config.etherscanApiKey
       /\ explorerRequests > 0
       /\ explorerNetwork = (IF config.etherscanNetwork THEN ConfiguredNetwork
                             ELSE <<"mainnet">>)

\* a service constructed with an explorer key and neither ABI nor network
\* is bound, with the ABI the mainnet explorer gave
C19_Witness ==
  /\ contract # 0
  /\ config.etherscanApiKey /\ ~config.etherscanNetwork
  /\ explorerRequests > 0
  /\ explorerNetwork = <<"mainnet">>

\* C20: a batch has at most one transaction in flight: the transaction at
\* index i+1 is submitted only when the receipt of the one at index i has
\* arrived.
C20_OneInFlight ==
  \A b \in Batches :
    LET rec == batches[b]
    IN /\ Len(rec.sent) <= rec.receipts + 1
       /\ \A i \in 1..Len(rec.sent) : i > 1 => <<b, i - 2>> \in mined
       /\ rec.pc \in {"submit", "wait"} => Len(rec.sent) = rec.receipts + 1
       /\ rec.pc = "done" => Len(rec.sent) = rec.receipts

\* two batches are each awaiting the receipt of their second transaction
C20_Witness ==
  \A b \in Batches :
    /\ batches[b].pc = "wait"
    /\ Len(batches[b].sent) = MaxBatchLen
    /\ batches[b].receipts = MaxBatchLen - 1

(***************************************************************************)
(* Properties of concurrent use, of retries and of side effects.           *)
(***************************************************************************)
\* the submissions of batch b that the connection layer did not refuse:
\* <<index, nonce>>
Accepted(b) ==
  { <<i, batches[b].sent[i].nonce>> : i \in
      { x \in 1..Len(batches[b].sent) :
          ~(x = Len(batches[b].sent) /\ batches[b].stage = "submit") } }

\* C21: no two transactions submitted for the signing identity carry the
\* same nonce, within a batch and across two batches that interleave.
C21_NoncesUnique ==
  \A b, c \in Batches :
    \A s \in Accepted(b), t \in Accepted(c) :
      (b # c \/ s[1] # t[1]) => s[2] # t[2]

\* C22: getTokenPrice has no single-flight guard: an invocation that found
\* no valid entry derives the price whatever else is in flight, and every
\* invocation that completes its derivation writes the entry of its key
\* with its own price and the time of its return.
C22_EachDerivationWrites ==
  [][\A c \in Callers :
       (gtp[c].pc = "store" /\ gtp'[c].pc = "idle") =>
         LET cacheKey == CacheKey(gtp[c].tokenAddress, gtp[c].network)
         IN /\ cacheKey \in DOMAIN priceCache'
            /\ priceCache'[cacheKey] = [price |-> gtp[c].price, timestamp |-> now]]_vars

\* one invocation has derived and written the price of a key, and a second
\* one that started on a miss for the same key has its own price, a
\* different one, ready to write
C22_Witness ==
  /\ last.op = "getTokenPrice" /\ last.result = "ok" /\ last.obs.reads = 7
  /\ \E c \in Callers :
       /\ gtp[c].pc = "store"
       /\ obs[c].entry = "none"
       /\ CacheKey(gtp[c].tokenAddress, gtp[c].network)
            = CacheKey(last.call.tokenAddress, last.call.network)
       /\ CacheKey(gtp[c].tokenAddress, gtp[c].network) \in DOMAIN priceCache
       /\ gtp[c].price # priceCache[CacheKey(gtp[c].tokenAddress, gtp[c].network)].price

\* C23: no operation retries. Per invocation sendTransaction submits at
\* most one transaction, batchTransactions submits each element of its list
\* at most once (the i-th submission is the i-th element), initialize sends
\* at most one explorer request, and getTokenPrice makes at most the seven
\* reads of one derivation.
C23_NoRetry ==
  /\ stx.submitted <= 1
  /\ \A b \in Batches :
       /\ Len(batches[b].sent) <= Len(batches[b].txs)
       /\ \A i \in 1..Len(batches[b].sent) :
            batches[b].sent[i].nonce = batches[b].n0 + i - 1
  /\ explorerRequests <= inits + (IF initPc = "fetch" THEN 1 ELSE 0)
  /\ \A c \in Callers : obs[c].reads <= 7
  /\ last.obs.reads <= 7

\* a price was derived with seven reads, a batch of two has submitted both
\* elements, the explorer was asked, and a sendTransaction of a caller has
\* submitted and waits for its receipt
C23_Witness ==
  /\ last.op = "getTokenPrice" /\ last.result = "ok" /\ last.obs.reads = 7
  /\ Len(batches[1].txs) = 2 /\ Len(batches[1].sent) = 2
  /\ explorerRequests >= 1
  /\ stx.pc = "wait" /\ stx.submitted = 1

\* the operations that only ask the network
ReadOps == {"call", "estimateGas", "getPastEvents", "getNonce"}

AttachedNow == { <<a[2], a[3]>> : a \in { x \in attached : x[1] = contract } }

\* the listeners the registry records, with the event name their id gives
Registered ==
  { <<SplitFirst(id), eventListeners[id]>> : id \in DOMAIN eventListeners }

\* C25: in every reachable state the listeners attached to the current
\* contract are exactly the listeners recorded in the registry, across any
\* sequence of initialize, subscribeToEvent, unsubscribeFromEvent and
\* disconnect; stated here for a service that was bound once, same-tick
\* subscriptions included.
C25_AttachedIsRegistry ==
  contract <= 1 => AttachedNow = Registered

\* C26: unsubscribeFromEvent(id) detaches the listener from the event name
\* subscribeToEvent attached it to, for every event name, names with a '-'
\* included: on a service bound once, the listener whose registry entry an
\* unsubscribeFromEvent removes is attached under no name afterwards.
C26_DetachedFromItsName ==
  [][\A id \in DOMAIN eventListeners :
       (/\ contract <= 1
        /\ ret' = Returned("unsubscribeFromEvent", "ok", id)
        /\ id \notin DOMAIN eventListeners')
       => \A a \in attached' : a[3] # eventListeners[id]]_vars

\* C27: in batchTransactions the nonce the batch assigns replaces any nonce
\* the caller put in a transaction's options, and every other option field
\* of that transaction reaches the submission unchanged, with no field
\* added.
C27_BatchNonceOverrides ==
  \A b \in Batches :
    \A i \in 1..Len(batches[b].sent) :
      LET options == batches[b].sent[i]
          given == batches[b].txs[i]
      IN /\ options.nonce = batches[b].n0 + i - 1
         /\ DOMAIN options = DOMAIN given \cup {"nonce"}
         /\ \A f \in DOMAIN given \ {"nonce"} : options[f] = given[f]

\* a transaction whose options carried a nonce and a gas limit was
\* submitted, and accepted, with another nonce and the same gas limit
C27_Witness ==
  \E b \in Batches :
    /\ batches[b].pc = "wait"
    /\ LET i == Len(batches[b].sent)
       IN /\ i >= 1
          /\ "nonce" \in DOMAIN batches[b].txs[i]
          /\ batches[b].sent[i].nonce # batches[b].txs[i].nonce
          /\ batches[b].sent[i].gasLimit = batches[b].txs[i].gasLimit

\* C28: a derivation that was in flight when clearCache ran for its key
\* does not repopulate the key: no later getTokenPrice is served from
\* cache a price derived from reads that started before the clearCache.
C28_NoStalePriceServed ==
  (last.op = "getTokenPrice" /\ last.result = "ok" /\ last.obs.reads = 0)
    => ~last.obs.stale

\* C29: when the token-side reserve of the pool is zero, getTokenPrice
\* fails with PriceUnavailableError and writes no cache entry: a price that
\* is not a finite number is never returned and never cached.
C29_OnlyFinitePrices ==
  /\ \A cacheKey \in DOMAIN priceCache : priceCache[cacheKey].price.k = "fin"
  /\ (last.op = "getTokenPrice" /\ last.result = "ok") => last.value.k = "fin"

\* C30: after disconnect() the binding is torn down for good: the registry
\* stays empty, a later subscribeToEvent on the same service adds no
\* registry entry.
C30_RegistryEmptyAfterDisconnect ==
  destroyed => DOMAIN eventListeners = {}


====
